---- MODULE Spec2Model ----
(***************************************************************************)
(* Model of simplified_feed_fetch.py: fetch every feed in a thread pool,   *)
(* canonicalize the entries in a second pool, collect and deduplicate the  *)
(* rows on the main thread, then merge them into news.parquet.             *)
(***************************************************************************)
EXTENDS Integers, Sequences, FiniteSets, TLC

\* ---------------------------------------------------------------- bounds
NumSources == 2      \* feeds pulled per run (the script lists six)
MaxEntries == 2      \* entries returned by all feeds of one run together
MaxRuns    == 2      \* consecutive invocations of the script

\* ------------------------------------------------------ program constants
FetchWorkersCap == 16   \* ThreadPoolExecutor(max_workers=min(16, len(SOURCES)))
CanonWorkers    == 8    \* ThreadPoolExecutor(max_workers=8)

SOURCES == 1..NumSources

Min(a, b) == IF a <= b THEN a ELSE b

\* ------------------------------------------------------------ feed entries
ABSENT == "ABSENT"      \* attribute that the parsed entry does not carry

\* Representative entries a feed can carry: a well-formed one, a second one
\* with the same link but other field values, other links, an unparseable
\* published date, and one entry per missing required attribute.
EntryPool ==
  { [link |-> "u1",   published |-> "d1",      title |-> "a",    summary |-> "s"],
    [link |-> "u1",   published |-> "d2",      title |-> "b ",   summary |-> "s"],
    [link |-> "u2",   published |-> "d2",      title |-> "a",    summary |-> "s"],
    [link |-> "u3",   published |-> "garbage", title |-> "a",    summary |-> "s"],
    [link |-> "u2",   published |-> "d1",      title |-> ABSENT, summary |-> "s"],
    [link |-> ABSENT, published |-> "d1",      title |-> "a",    summary |-> "s"],
    [link |-> "u2",   published |-> ABSENT,    title |-> "a",    summary |-> "s"],
    [link |-> "u3",   published |-> "d1",      title |-> "a",    summary |-> ABSENT] }

\* ------------------------------------------------------------ canonical_row
NaT == 0                                   \* pandas' not-a-time instant
ParsedInstant == [d1 |-> 1, d2 |-> 2]      \* instants of the parseable dates

\* pd.to_datetime(published, utc=True, errors="coerce")
to_datetime(p) == IF p \in DOMAIN ParsedInstant THEN ParsedInstant[p] ELSE NaT

\* NaT.tz_convert(tz) is NaT; a real instant keeps its value in another zone
tz_convert(i) == i

\* Timestamp.isoformat(timespec="seconds"); NaT.isoformat() is the text "NaT"
isoformat(i) == IF i = NaT THEN "NaT" ELSE <<"t1", "t2">>[i]

\* hashlib.sha1(url.encode()).hexdigest()
sha1 == [u1 |-> "h1", u2 |-> "h2", u3 |-> "h3"]

\* str.strip()
strip == [a |-> "a", b |-> "b", s |-> "s"] @@ ("b " :> "b")

\* ---------------------------------------------------------------- site_name
\* text is a sequence of one-character strings
LowerLetters == <<"a","c","d","e","f","h","i","j","l","m","n","o","s","t","w","y">>
UpperLetters == <<"A","C","D","E","F","H","I","J","L","M","N","O","S","T","W","Y">>

LetterIndex(letters, c) == CHOOSE k \in 1..Len(letters) : letters[k] = c
IsIn(letters, c) == \E k \in 1..Len(letters) : letters[k] = c

\* str.lower() and str.upper()
lower(str) ==
  [i \in 1..Len(str) |->
     IF IsIn(UpperLetters, str[i])
       THEN LowerLetters[LetterIndex(UpperLetters, str[i])] ELSE str[i]]
upper(str) ==
  [i \in 1..Len(str) |->
     IF IsIn(LowerLetters, str[i])
       THEN UpperLetters[LetterIndex(LowerLetters, str[i])] ELSE str[i]]

\* str.startswith(prefix)
startswith(str, prefix) ==
  Len(str) >= Len(prefix) /\ SubSeq(str, 1, Len(prefix)) = prefix

HasDot(str) == \E i \in 1..Len(str) : str[i] = "."

RECURSIVE split(_)
\* str.split(".")
split(str) ==
  IF ~HasDot(str) THEN <<str>>
  ELSE LET k == CHOOSE i \in 1..Len(str) :
                  str[i] = "." /\ \A j \in 1..(i - 1) : str[j] # "."
       IN <<SubSeq(str, 1, k - 1)>> \o split(SubSeq(str, k + 1, Len(str)))

WwwDot == <<"w", "w", "w", ".">>

\* variant: the last label is taken instead of the one before it
site_name_last_label(hostname) ==
  LET low  == lower(hostname)
      host == IF startswith(low, WwwDot)
                THEN SubSeq(low, Len(WwwDot) + 1, Len(low)) ELSE low
  IN IF HasDot(host) THEN upper(split(host)[Len(split(host))]) ELSE upper(host)

\* site_name(url), from the hostname that urlparse extracted ("" when absent)
site_name(hostname) ==
  LET low  == lower(hostname)
      host == IF startswith(low, WwwDot)
                THEN SubSeq(low, Len(WwwDot) + 1, Len(low)) ELSE low
  IN IF HasDot(host) THEN upper(split(host)[Len(split(host)) - 1]) ELSE upper(host)

\* variant: the id is derived from the title instead of the link
canonical_row_id_from_title(e) ==
  IF e.published = ABSENT THEN [ok |-> FALSE, exc |-> "published"]
  ELSE IF e.link = ABSENT THEN [ok |-> FALSE, exc |-> "link"]
  ELSE IF e.title = ABSENT THEN [ok |-> FALSE, exc |-> "title"]
  ELSE IF e.summary = ABSENT THEN [ok |-> FALSE, exc |-> "summary"]
  ELSE [ok |-> TRUE,
        row |-> [article_id |-> IF strip[e.title] = "a" THEN "h1" ELSE "h2",
                 timestamp  |-> isoformat(tz_convert(to_datetime(e.published))),
                 title      |-> strip[e.title],
                 url        |-> e.link]]

\* canonical_row(feed_entry): attribute reads happen in source order and the
\* first absent one raises AttributeError.
canonical_row(e) ==
  IF e.published = ABSENT THEN [ok |-> FALSE, exc |-> "published"]
  ELSE IF e.link = ABSENT THEN [ok |-> FALSE, exc |-> "link"]
  ELSE IF e.title = ABSENT THEN [ok |-> FALSE, exc |-> "title"]
  ELSE IF e.summary = ABSENT THEN [ok |-> FALSE, exc |-> "summary"]
  ELSE [ok |-> TRUE,
        row |-> [article_id |-> sha1[e.link],
                 timestamp  |-> isoformat(tz_convert(to_datetime(e.published))),
                 title      |-> strip[e.title],
                 url        |-> e.link]]

\* variant: a feed that cannot be retrieved makes the call raise
feedparser_parse_raising(failed, entries) ==
  [raised |-> failed, entries |-> entries]

\* feedparser.parse(url): a feed that cannot be retrieved or parsed comes back
\* as a result without entries (bozo set); the call itself does not raise.
feedparser_parse(failed, entries) ==
  [raised |-> FALSE, entries |-> IF failed THEN <<>> ELSE entries]

\* variant: the collector appends without looking at the ids seen
collect_rows_always(rs, seen, row) == Append(rs, row)

\* variant: the membership test is inverted
collect_rows_inverted(rs, seen, row) ==
  IF row.article_id \in seen THEN Append(rs, row) ELSE rs

\* variant: the collector compares titles instead of ids
collect_rows_by_title(rs, seen, row) ==
  IF \A k \in 1..Len(rs) : rs[k].title # row.title THEN Append(rs, row) ELSE rs

\* the dedup step of the collector: append the row unless its id was seen
collect_rows(rs, seen, row) ==
  IF row.article_id \notin seen THEN Append(rs, row) ELSE rs

\* the except handler formats futures[fut].link, which raises when the entry
\* has no link attribute
handler_raises(e) == e.link = ABSENT

\* ------------------------------------------------------------------ tables
\* order of the timestamp strings under Python's str comparison
StrRank == [t1 |-> 1, t2 |-> 2, NaT |-> 3]

IsSortedDesc(df) ==
  \A i, j \in 1..Len(df) :
     i < j => StrRank[df[i].timestamp] >= StrRank[df[j].timestamp]

Perms(df) ==
  { [i \in 1..Len(df) |-> df[f[i]]] :
      f \in { g \in [1..Len(df) -> 1..Len(df)] :
                \A a, b \in 1..Len(df) : a # b => g[a] # g[b] } }

\* DataFrame(rows).sort_values("timestamp", ascending=False): any descending
\* arrangement of the rows (the default sort kind does not fix the tie order)
sort_values(df) == { p \in Perms(df) : IsSortedDesc(p) }

Range(df) == { df[i] : i \in 1..Len(df) }

Ids(df) == { df[i].article_id : i \in 1..Len(df) }

\* variant: the cross-run filter keeps every fresh row
not_isin_keepall(df, before_set) == df

\* variant: the negation of the mask is missing
not_isin_inverted(df, before_set) ==
  SelectSeq(df, LAMBDA r : r.article_id \in before_set)

\* fresh_df[~fresh_df["article_id"].isin(before_set)]
not_isin(df, before_set) == SelectSeq(df, LAMBDA r : r.article_id \notin before_set)

\* variant: overwrite instead of append
concat_overwrite(old, fresh) == fresh

\* pd.concat([old_df, fresh_df], ignore_index=True)
concat(old, fresh) == old \o fresh

\* the file news.parquet: missing, a readable table, or a truncated file
NoFile        == [kind |-> "absent",  rows |-> <<>>]
PartialFile   == [kind |-> "partial", rows |-> <<>>]
TableFile(df) == [kind |-> "table",   rows |-> df]

\* ------------------------------------------------------------------- state
VARIABLES
  run,            \* number of the current invocation
  pc,             \* position of the main thread
  err,            \* exception that ended the run, "none" otherwise
  fstate,         \* per source: queued, running, ok, failed
  feeds,          \* per source: entries of the parsed feed
  futures,        \* all_entries, one canonicalization task per entry
  tstate,         \* per task: pending, running, done, collected
  rows,           \* rows collected so far
  seen_this_run,  \* ids of the collected rows
  skipped,        \* tasks whose failure was logged
  fresh_df,
  old_df,
  combined,
  OUT,            \* content of news.parquet
  prior,          \* content of news.parquet when the run started
  last_fresh,     \* rows handed to the merge by the latest completed run
  stats,          \* the counts printed at the end of the run
  alt,            \* the as_completed loop replayed in another completion order
  site            \* one call of site_name: the host, its labels, the result

vars == <<run, pc, err, fstate, feeds, futures, tstate, rows, seen_this_run,
          skipped, fresh_df, old_df, combined, OUT, prior, last_fresh, stats,
          alt, site>>

aux == <<alt, site>>

NoStats == [added |-> 0, total |-> 0]
NoAlt   == [done |-> {}, rows |-> <<>>]
NoSite  == [labels |-> <<>>, label |-> <<>>, called |-> FALSE]

StartOfRun ==
  /\ pc = "fetch"
  /\ err = "none"
  /\ fstate = [s \in SOURCES |-> "queued"]
  /\ feeds = [s \in SOURCES |-> <<>>]
  /\ futures = <<>>
  /\ tstate = <<>>
  /\ rows = <<>>
  /\ seen_this_run = {}
  /\ skipped = {}
  /\ fresh_df = <<>>
  /\ old_df = <<>>
  /\ combined = <<>>
  /\ stats = NoStats

InitPipeline ==
  /\ run = 1
  /\ OUT = NoFile
  /\ prior = NoFile
  /\ last_fresh = {}
  /\ alt = NoAlt
  /\ StartOfRun

Init ==
  /\ InitPipeline
  /\ site = NoSite

\* -------------------------------------------------------------- fetch stage
RECURSIVE SumLen(_, _)
SumLen(fs, n) == IF n = 0 THEN 0 ELSE Len(fs[n]) + SumLen(fs, n - 1)

RECURSIVE Flatten(_, _)
\* [e for f in feeds for e in f.entries], feeds in source order
Flatten(fs, n) == IF n = 0 THEN <<>> ELSE Flatten(fs, n - 1) \o fs[n]

SeqsUpTo(S, n) == UNION { [1..k -> S] : k \in 0..n }

Abort(e) ==
  /\ pc' = "aborted"
  /\ err' = e

\* a pool worker takes the next source
FetchStart(s) ==
  /\ pc = "fetch"
  /\ fstate[s] = "queued"
  /\ Cardinality({ t \in SOURCES : fstate[t] = "running" })
        < Min(FetchWorkersCap, NumSources)
  /\ fstate' = [fstate EXCEPT ![s] = "running"]
  /\ UNCHANGED <<run, pc, err, feeds, futures, tstate, rows, seen_this_run,
                 skipped, fresh_df, old_df, combined, OUT, prior, last_fresh, stats, aux>>

\* feedparser.parse returns for source s: it failed, or it found entries es
FetchReturns(s, failed, es) ==
  /\ pc = "fetch"
  /\ fstate[s] = "running"
  /\ LET r == feedparser_parse(failed, es) IN
       IF r.raised
         THEN /\ Abort("FeedError")
              /\ UNCHANGED <<fstate, feeds>>
         ELSE /\ fstate' = [fstate EXCEPT ![s] = IF failed THEN "failed" ELSE "ok"]
              /\ feeds' = [feeds EXCEPT ![s] = r.entries]
              /\ UNCHANGED <<pc, err>>
  /\ UNCHANGED <<run, futures, tstate, rows, seen_this_run,
                 skipped, fresh_df, old_df, combined, OUT, prior, last_fresh, stats, aux>>

FetchDone(s) ==
  \E failed \in BOOLEAN :
     \E es \in SeqsUpTo(EntryPool, MaxEntries - SumLen(feeds, NumSources)) :
       /\ failed => es = <<>>
       /\ FetchReturns(s, failed, es)

\* variant: entries are submitted as soon as one feed has arrived
Submit_early ==
  /\ pc = "fetch"
  /\ \E s \in SOURCES : fstate[s] \in {"ok", "failed"}
  /\ futures' = Flatten(feeds, NumSources)
  /\ tstate' = [i \in 1..Len(futures') |-> "pending"]
  /\ pc' = "canon"
  /\ UNCHANGED <<run, err, fstate, feeds, rows, seen_this_run,
                 skipped, fresh_df, old_df, combined, OUT, prior, last_fresh, stats, aux>>

\* list(pool.map(...)) has every feed: flatten and submit one task per entry
Submit ==
  /\ pc = "fetch"
  /\ \A s \in SOURCES : fstate[s] \in {"ok", "failed"}
  /\ futures' = Flatten(feeds, NumSources)
  /\ tstate' = [i \in 1..Len(futures') |-> "pending"]
  /\ pc' = "canon"
  /\ UNCHANGED <<run, err, fstate, feeds, rows, seen_this_run,
                 skipped, fresh_df, old_df, combined, OUT, prior, last_fresh, stats, aux>>

\* ----------------------------------------------------- canonicalization stage
\* variant: a task starts whether or not a worker is free
TaskStart_unbounded(i) ==
  /\ pc = "canon"
  /\ tstate[i] = "pending"
  /\ tstate' = [tstate EXCEPT ![i] = "running"]
  /\ UNCHANGED <<run, pc, err, fstate, feeds, futures, rows, seen_this_run,
                 skipped, fresh_df, old_df, combined, OUT, prior, last_fresh, stats, aux>>

\* a free worker of the pool takes a submitted task
TaskStart(i) ==
  /\ pc = "canon"
  /\ tstate[i] = "pending"
  /\ Cardinality({ j \in 1..Len(tstate) : tstate[j] = "running" }) < CanonWorkers
  /\ tstate' = [tstate EXCEPT ![i] = "running"]
  /\ UNCHANGED <<run, pc, err, fstate, feeds, futures, rows, seen_this_run,
                 skipped, fresh_df, old_df, combined, OUT, prior, last_fresh, stats, aux>>

TaskFinish(i) ==
  /\ pc = "canon"
  /\ tstate[i] = "running"
  /\ tstate' = [tstate EXCEPT ![i] = "done"]
  /\ UNCHANGED <<run, pc, err, fstate, feeds, futures, rows, seen_this_run,
                 skipped, fresh_df, old_df, combined, OUT, prior, last_fresh, stats, aux>>

\* one iteration of the as_completed loop, on the main thread
Collect(i) ==
  /\ pc = "canon"
  /\ tstate[i] = "done"
  /\ tstate' = [tstate EXCEPT ![i] = "collected"]
  /\ LET r == canonical_row(futures[i]) IN
     IF r.ok
       THEN /\ rows' = collect_rows(rows, seen_this_run, r.row)
            /\ seen_this_run' = seen_this_run \cup {r.row.article_id}
            /\ UNCHANGED <<pc, err, skipped>>
       ELSE IF handler_raises(futures[i])
         THEN /\ Abort("AttributeError")
              /\ UNCHANGED <<rows, seen_this_run, skipped>>
         ELSE /\ skipped' = skipped \cup {i}
              /\ UNCHANGED <<pc, err, rows, seen_this_run>>
  /\ UNCHANGED <<run, fstate, feeds, futures,
                 fresh_df, old_df, combined, OUT, prior, last_fresh, stats, aux>>

\* pd.DataFrame(rows).sort_values("timestamp", ...): a frame built from no
\* rows has no timestamp column and sort_values raises KeyError
BuildFresh ==
  /\ pc = "canon"
  /\ \A i \in 1..Len(tstate) : tstate[i] = "collected"
  /\ IF rows = <<>>
       THEN /\ Abort("KeyError")
            /\ UNCHANGED fresh_df
       ELSE /\ \E p \in sort_values(rows) : fresh_df' = p
            /\ pc' = "merge"
            /\ UNCHANGED err
  /\ UNCHANGED <<run, fstate, feeds, futures, tstate, rows, seen_this_run,
                 skipped, old_df, combined, OUT, prior, last_fresh, stats, aux>>

\* variant: a failed read is swallowed and the run goes on as if no file existed
Merge_swallow ==
  /\ pc = "merge"
  /\ \E readable \in BOOLEAN :
       IF OUT.kind = "table" /\ readable
         THEN LET old == OUT.rows
                  fresh == not_isin(fresh_df, Ids(old)) IN
              /\ old_df' = old
              /\ fresh_df' = fresh
              /\ combined' = concat(old, fresh)
         ELSE /\ combined' = fresh_df
              /\ UNCHANGED <<old_df, fresh_df>>
  /\ pc' = "write"
  /\ UNCHANGED <<run, err, fstate, feeds, futures, tstate, rows, seen_this_run,
                 skipped, OUT, prior, last_fresh, stats, aux>>

\* ------------------------------------------------------------- merge stage
\* the append-if-new block: read the old table, filter, concatenate
Merge ==
  /\ pc = "merge"
  /\ IF OUT.kind = "absent"
       THEN /\ combined' = fresh_df
            /\ pc' = "write"
            /\ UNCHANGED <<err, old_df, fresh_df>>
       ELSE \E readable \in BOOLEAN :
            IF OUT.kind = "table" /\ readable
              THEN LET old == OUT.rows
                       fresh == not_isin(fresh_df, Ids(old)) IN
                   /\ old_df' = old
                   /\ fresh_df' = fresh
                   /\ combined' = concat(old, fresh)
                   /\ pc' = "write"
                   /\ UNCHANGED err
              ELSE /\ Abort("ReadError")
                   /\ UNCHANGED <<old_df, fresh_df, combined>>
  /\ UNCHANGED <<run, fstate, feeds, futures, tstate, rows, seen_this_run,
                 skipped, OUT, prior, last_fresh, stats, aux>>

\* combined.to_parquet(OUT): the writer opens news.parquet itself for
\* writing, which empties it, or fails to open it
WriteOpen ==
  /\ pc = "write"
  /\ \E opened \in BOOLEAN :
       IF opened
         THEN /\ OUT' = PartialFile
              /\ pc' = "writing"
              /\ UNCHANGED err
         ELSE /\ Abort("WriteError")
              /\ UNCHANGED OUT
  /\ UNCHANGED <<run, fstate, feeds, futures, tstate, rows, seen_this_run,
                 skipped, fresh_df, old_df, combined, prior, last_fresh, stats, aux>>

\* the writer finishes and closes the file
WriteFinish ==
  /\ pc = "writing"
  /\ OUT' = TableFile(combined)
  /\ pc' = "stats"
  /\ UNCHANGED <<run, err, fstate, feeds, futures, tstate, rows, seen_this_run,
                 skipped, fresh_df, old_df, combined, prior, last_fresh, stats, aux>>

\* the write fails or the process dies before the file is complete
WriteFail ==
  /\ pc = "writing"
  /\ Abort("WriteError")
  /\ UNCHANGED <<run, fstate, feeds, futures, tstate, rows, seen_this_run,
                 skipped, fresh_df, old_df, combined, OUT, prior, last_fresh, stats, aux>>

\* variant: the new-article count is taken before the cross-run filter
Stats_prefilter ==
  /\ pc = "stats"
  /\ stats' = [added |-> Len(rows), total |-> Len(combined)]
  /\ pc' = "done"
  /\ UNCHANGED <<run, err, fstate, feeds, futures, tstate, rows, seen_this_run,
                 skipped, fresh_df, old_df, combined, OUT, prior, last_fresh, aux>>

\* the summary lines
Stats ==
  /\ pc = "stats"
  /\ stats' = [added |-> Len(fresh_df), total |-> Len(combined)]
  /\ pc' = "done"
  /\ UNCHANGED <<run, err, fstate, feeds, futures, tstate, rows, seen_this_run,
                 skipped, fresh_df, old_df, combined, OUT, prior, last_fresh, aux>>

\* the script is invoked again
NextRun ==
  /\ pc \in {"done", "aborted"}
  /\ run < MaxRuns
  /\ run' = run + 1
  /\ prior' = OUT
  /\ last_fresh' = IF pc = "done" THEN Range(rows) ELSE last_fresh
  /\ pc' = "fetch"
  /\ err' = "none"
  /\ fstate' = [s \in SOURCES |-> "queued"]
  /\ feeds' = [s \in SOURCES |-> <<>>]
  /\ futures' = <<>>
  /\ tstate' = <<>>
  /\ rows' = <<>>
  /\ seen_this_run' = {}
  /\ skipped' = {}
  /\ fresh_df' = <<>>
  /\ old_df' = <<>>
  /\ combined' = <<>>
  /\ stats' = NoStats
  /\ alt' = NoAlt
  /\ UNCHANGED <<OUT, site>>

Next ==
  \/ \E s \in SOURCES : FetchStart(s)
  \/ \E s \in SOURCES : FetchDone(s)
  \/ Submit
  \/ \E i \in 1..Len(tstate) : TaskStart(i)
  \/ \E i \in 1..Len(tstate) : TaskFinish(i)
  \/ \E i \in 1..Len(tstate) : Collect(i)
  \/ BuildFresh
  \/ Merge
  \/ WriteOpen
  \/ WriteFinish
  \/ WriteFail
  \/ Stats
  \/ NextRun

Spec == Init /\ [][Next]_vars

\* ==================================================================== claims
Written  == pc \in {"stats", "done"}          \* to_parquet has returned
Collected(i) == i \in 1..Len(tstate) /\ tstate[i] = "collected"
Distinct(df) ==
  \A i, j \in 1..Len(df) : i # j => df[i].article_id # df[j].article_id

\* C1: starting without a corpus file, the persisted corpus never holds two
\* records with the same article_id, whatever the feeds return in each run.
C1_UniqueIds == OUT.kind = "table" => Distinct(OUT.rows)

\* a second run has written after its feeds returned the same link twice,
\* a link that the corpus of the first run already held
C1_Witness ==
  /\ run = 2 /\ pc = "done" /\ prior.kind = "table"
  /\ Len(futures) = 2
  /\ futures[1].link = "u1" /\ futures[2].link = "u1"
  /\ canonical_row(futures[1]).ok /\ canonical_row(futures[2]).ok
  /\ sha1["u1"] \in Ids(prior.rows)

\* C2: a run that finds a corpus and writes keeps every prior record, field
\* for field, and a fresh record with a stored id does not replace the stored
\* one.
C2_AppendOnly ==
  (Written /\ prior.kind = "table") =>
     /\ OUT.kind = "table"
     /\ Range(prior.rows) \subseteq Range(OUT.rows)
     /\ \A r \in Range(OUT.rows) :
          r.article_id \in Ids(prior.rows) => r \in Range(prior.rows)

\* the run collected a row whose id is stored with other field values
C2_Witness ==
  /\ pc = "done" /\ prior.kind = "table"
  /\ \E r \in Range(rows) : \E o \in Range(prior.rows) :
       r.article_id = o.article_id /\ r # o

\* C3: after each write, first run or later, the corpus is sorted by
\* timestamp descending.
C3_SortedAfterWrite == OUT.kind = "table" => IsSortedDesc(OUT.rows)

\* C4: when the write fails or the process dies while writing, the file
\* still holds exactly the prior corpus.
C4_AtomicWrite == (err = "WriteError" /\ prior.kind = "table") => OUT = prior

\* C5: an entry that lacks link, published, title or summary is caught,
\* logged and left out, and the batch is never aborted.
C5_EntryIsolation ==
  /\ err # "AttributeError"
  /\ \A i \in 1..Len(tstate) :
       (Collected(i) /\ ~canonical_row(futures[i]).ok) => i \in skipped

\* C6: whatever the completion order, the collected rows hold exactly one
\* record per distinct link among the collected entries that canonicalized.
C6_OnePerLink ==
  LET okLinks == { futures[i].link : i \in { j \in 1..Len(tstate) :
                       Collected(j) /\ canonical_row(futures[j]).ok } } IN
  /\ \A l \in okLinks :
       Cardinality({ k \in 1..Len(rows) : rows[k].url = l }) = 1
  /\ \A k \in 1..Len(rows) : rows[k].url \in okLinks

\* two entries share a link and the later one was collected first
C6_Witness ==
  /\ Len(futures) = 2 /\ Collected(1) /\ Collected(2)
  /\ futures[1].link = "u1" /\ futures[2].link = "u1"
  /\ canonical_row(futures[1]).ok /\ canonical_row(futures[2]).ok
  /\ futures[1] # futures[2]
  /\ Len(rows) = 1 /\ rows[1] = canonical_row(futures[2]).row

\* C7: merging the same fresh records a second time adds no record and
\* leaves the corpus as the first merge wrote it.
C7_Idempotent ==
  (Written /\ last_fresh # {} /\ Range(rows) = last_fresh) =>
     /\ Len(fresh_df) = 0
     /\ OUT = prior
     /\ pc = "done" => stats.added = 0

\* the second run collected the rows the first run persisted
C7_Witness ==
  /\ run = 2 /\ pc = "done"
  /\ Cardinality(last_fresh) = 2 /\ Range(rows) = last_fresh

\* C8: N stored records and M fresh ones with other ids give N+M records,
\* the old ones and the fresh ones.
C8_CrossRunAppend ==
  (Written /\ prior.kind = "table" /\ Ids(rows) \cap Ids(prior.rows) = {}) =>
     /\ OUT.kind = "table"
     /\ Len(OUT.rows) = Len(prior.rows) + Len(rows)
     /\ Range(OUT.rows) = Range(prior.rows) \cup Range(rows)

\* two stored records, one fresh record with a new id
C8_Witness ==
  /\ pc = "done" /\ prior.kind = "table"
  /\ Len(prior.rows) = 2 /\ Len(rows) = 1
  /\ Ids(rows) \cap Ids(prior.rows) = {}

\* C9: an entry whose published date cannot be parsed yields no record, is
\* skipped, and no record without a valid timestamp is persisted.
C9_RejectBadDate ==
  /\ \A i \in 1..Len(tstate) :
       (Collected(i) /\ futures[i].published # ABSENT
          /\ to_datetime(futures[i].published) = NaT) => i \in skipped
  /\ \A r \in Range(rows) \cup Range(OUT.rows) : r.timestamp # "NaT"

C11_IdFromUrl ==
  LET stored == Range(OUT.rows) \cup Range(prior.rows) IN
  /\ \A r \in stored : r.article_id = sha1[r.url]
  /\ \A r1, r2 \in stored : (r1.url = r2.url) <=> (r1.article_id = r2.article_id)

\* the second run extended a corpus and the file now holds three urls
C11_Witness ==
  /\ run = 2 /\ pc = "done" /\ prior.kind = "table"
  /\ Len(OUT.rows) = 3 /\ Len(prior.rows) < 3

\* ------------------------------------------------- site_name on its own
MaxLabels == 4      \* labels in a host name

Www       == <<"w","w","w">>
WwwMixed  == <<"W","w","w">>
Nytimes   == <<"n","y","t","i","m","e","s">>
Com       == <<"c","o","m">>
Feeds     == <<"f","e","e","d","s">>
Content   == <<"c","o","n","t","e","n","t">>
Dowjones  == <<"d","o","w","j","o","n","e","s">>
Io        == <<"i","o">>
Localhost == <<"l","o","c","a","l","h","o","s","t">>

LabelPool == {Www, WwwMixed, Nytimes, Com, Feeds, Content, Dowjones, Io,
              Localhost, <<>>}

RECURSIVE Join(_)
\* the host name written with dots between its labels
Join(labels) ==
  IF Len(labels) = 0 THEN <<>>
  ELSE IF Len(labels) = 1 THEN labels[1]
  ELSE labels[1] \o <<".">> \o Join(Tail(labels))

InitSite ==
  /\ InitPipeline
  /\ \E ls \in SeqsUpTo(LabelPool, MaxLabels) :
       site = [labels |-> ls, label |-> <<>>, called |-> FALSE]

CallSiteName ==
  /\ ~site.called
  /\ site' = [site EXCEPT !.label = site_name(Join(site.labels)),
                          !.called = TRUE]
  /\ UNCHANGED <<run, pc, err, fstate, feeds, futures, tstate, rows,
                 seen_this_run, skipped, fresh_df, old_df, combined, OUT,
                 prior, last_fresh, stats, alt>>

NextSite == CallSiteName

SpecSite == InitSite /\ [][NextSite]_vars

\* the definition the publisher label is specified by, label by label
RefLabel(labels) ==
  LET low  == [i \in 1..Len(labels) |-> lower(labels[i])]
      rest == IF Len(low) >= 2 /\ low[1] = Www THEN Tail(low) ELSE low
  IN IF Len(rest) >= 2 THEN upper(rest[Len(rest) - 1])
     ELSE IF Len(rest) = 1 THEN upper(rest[1])
     ELSE <<>>

\* C12: site_name returns the reference label of every host; www.nytimes.com
\* gives NYTIMES, feeds.content.dowjones.io gives DOWJONES, localhost gives
\* LOCALHOST and the empty host gives the empty label.
C12_SiteName ==
  site.called =>
    /\ site.label = RefLabel(site.labels)
    /\ site.labels = <<Www, Nytimes, Com>> =>
         site.label = <<"N","Y","T","I","M","E","S">>
    /\ site.labels = <<Feeds, Content, Dowjones, Io>> =>
         site.label = <<"D","O","W","J","O","N","E","S">>
    /\ site.labels = <<Localhost>> =>
         site.label = <<"L","O","C","A","L","H","O","S","T">>
    /\ site.labels = <<>> => site.label = <<>>

\* site_name was called on WWW.www.nytimes.com and dropped one prefix only
C12_Witness ==
  /\ site.called
  /\ site.labels = <<WwwMixed, Www, Nytimes, Com>>
  /\ site.label = <<"N","Y","T","I","M","E","S">>

AllFetched   == \A s \in SOURCES : fstate[s] \in {"ok", "failed"}
AllCollected == \A i \in 1..Len(tstate) : tstate[i] = "collected"
MergeStarted ==
  pc \in {"write", "writing", "stats", "done"} \/ err \in {"ReadError", "WriteError"}

\* C13: no canonicalization task exists before every fetch has completed,
\* and the merge (reading the old corpus, writing the new one) starts only
\* after every task has finished and been collected.
C13_StageBarriers ==
  /\ Len(tstate) > 0 => AllFetched
  /\ pc \notin {"fetch", "aborted"} => AllFetched
  /\ (pc = "merge" \/ MergeStarted) => AllFetched /\ AllCollected

\* the merge is about to start on two rows that came from two feeds
C13_Witness ==
  /\ pc = "merge"
  /\ Len(feeds[1]) = 1 /\ Len(feeds[2]) = 1
  /\ Len(rows) = 2

\* C14: a run that produces no canonical record completes without an error,
\* reports 0 new articles and leaves an existing corpus unchanged.
C14_EmptyRunCompletes ==
  /\ err # "KeyError"
  /\ (pc = "done" /\ rows = <<>>) => stats.added = 0 /\ OUT = prior

\* C16: a failed read of an existing corpus ends the run with the error
\* before any write; the file stays as it was and is never replaced by a
\* corpus built from the fresh records alone.
C16_ReadFailureFatal ==
  /\ err = "ReadError" => pc = "aborted" /\ OUT = prior
  /\ prior.kind = "partial" =>
       OUT = prior /\ pc \notin {"write", "writing", "stats", "done"}
  /\ (prior.kind = "table" /\ OUT.kind = "table") =>
       Range(prior.rows) \subseteq Range(OUT.rows)

\* the read of a stored table failed while fresh rows were waiting
C16_Witness ==
  /\ err = "ReadError" /\ prior.kind = "table"
  /\ Len(fresh_df) >= 1
  /\ Ids(fresh_df) \cap Ids(prior.rows) = {}

\* C17: the reported new count is the number of this run's deduplicated
\* records whose id was not stored before, and the reported total is the
\* length of the corpus just written: the prior count plus the new count.
C17_StatsAgree ==
  pc = "done" =>
    /\ stats.added =
         Cardinality({ k \in 1..Len(rows) :
                         rows[k].article_id \notin Ids(prior.rows) })
    /\ stats.total = Len(OUT.rows)
    /\ stats.total = Len(prior.rows) + stats.added

\* two rows collected, one of them already stored: 1 added, 3 in total
C17_Witness ==
  /\ pc = "done" /\ run = 2
  /\ Len(rows) = 2 /\ Len(prior.rows) = 2
  /\ stats.added = 1 /\ stats.total = 3

\* ------------------------------------- the same run in two completion orders
\* The as_completed loop replayed on the same futures in an order of its own,
\* once the loop of the run has collected every task (so no handler raised).
AltCollect(i) ==
  /\ pc = "canon"
  /\ AllCollected
  /\ i \notin alt.done
  /\ LET r == canonical_row(futures[i]) IN
     alt' = [done |-> alt.done \cup {i},
             rows |-> IF r.ok THEN collect_rows(alt.rows, Ids(alt.rows), r.row)
                               ELSE alt.rows]
  /\ UNCHANGED <<run, pc, err, fstate, feeds, futures, tstate, rows,
                 seen_this_run, skipped, fresh_df, old_df, combined, OUT,
                 prior, last_fresh, stats, site>>

NextDet ==
  \/ Next
  \/ \E i \in 1..Len(tstate) : AltCollect(i)

SpecDet == Init /\ [][NextDet]_vars

AltComplete == alt.done = 1..Len(futures) /\ Len(futures) > 0

\* the records the run persists when its tasks complete in the other order
AltPersisted ==
  Range(concat(prior.rows, not_isin(alt.rows, Ids(prior.rows))))

\* C15 as stated: the records persisted, ids and field values, are the same
\* for every completion order.
C15_SameRecords ==
  (Written /\ AltComplete) => Range(OUT.rows) = AltPersisted

\* C15 amended: the ids persisted are the same for every completion order,
\* and a persisted record differs between two orders only if several entries
\* of the run carry its link with different field values.
C15_SameIds ==
  (Written /\ AltComplete) =>
     /\ Ids(OUT.rows) = { r.article_id : r \in AltPersisted }
     /\ \A r \in Range(OUT.rows) \ AltPersisted :
          \E i, j \in 1..Len(futures) :
             /\ canonical_row(futures[i]).ok /\ canonical_row(futures[j]).ok
             /\ futures[i].link = r.url /\ futures[j].link = r.url
             /\ canonical_row(futures[i]).row # canonical_row(futures[j]).row

\* two entries share a link, and the two orders persist different records
C15_Witness ==
  /\ pc = "done" /\ AltComplete
  /\ Range(OUT.rows) # AltPersisted
  /\ Ids(OUT.rows) = { r.article_id : r \in AltPersisted }

\* ------------------------------------------- more entries than pool workers
PoolEntries == 9     \* entries of the one feed that is not empty

GoodEntry == [link |-> "u1", published |-> "d1", title |-> "a", summary |-> "s"]

\* a feed comes back empty, or with as many entries as the bound still allows
FetchBurst(s) ==
  \E k \in {0, PoolEntries - SumLen(feeds, NumSources)} :
     FetchReturns(s, FALSE, [i \in 1..k |-> GoodEntry])

NextPool ==
  \/ \E s \in SOURCES : FetchStart(s)
  \/ \E s \in SOURCES : FetchBurst(s)
  \/ Submit
  \/ \E i \in 1..Len(tstate) : TaskStart(i)
  \/ \E i \in 1..Len(tstate) : TaskFinish(i)
  \/ \E i \in 1..Len(tstate) : Collect(i)
  \/ BuildFresh
  \/ Merge
  \/ WriteOpen
  \/ WriteFinish
  \/ WriteFail
  \/ Stats

SpecPool == Init /\ [][NextPool]_vars

Running(states, n) == { i \in 1..n : states[i] = "running" }

\* C18: at most min(16, number of sources) feed retrievals are in flight and
\* at most 8 canonicalization tasks execute at once, whatever the number of
\* entries.
C18_BoundedPools ==
  /\ Cardinality(Running(fstate, NumSources)) <= Min(FetchWorkersCap, NumSources)
  /\ Cardinality(Running(tstate, Len(tstate))) <= CanonWorkers

\* nine tasks were submitted: eight execute and the ninth waits for a worker
C18_Witness ==
  /\ Len(tstate) > CanonWorkers
  /\ Cardinality(Running(tstate, Len(tstate))) = CanonWorkers
  /\ \E i \in 1..Len(tstate) : tstate[i] = "pending"

====
